---- MODULE Spec2Model ----
(***************************************************************************)
(* Model of onelogin_aws_cli/credentials.py: the two credential holders    *)
(* UserCredentials and MFACredentials.                                     *)
(*                                                                         *)
(* A behaviour follows ONE instance of one of the two classes (cls) from   *)
(* its construction through any sequence of calls of its methods.  A step  *)
(* is one whole method call, with everything the call reads from the       *)
(* terminal or the keyring drawn from small sets.                          *)
(*                                                                         *)
(* Python's Optional values are one-element-or-empty sequences: None is    *)
(* <<>> and a value v is <<v>>, so that None, "" and "x" stay distinct.    *)
(***************************************************************************)
EXTENDS Integers, Sequences, FiniteSets

VARIABLES
    cls,            \* class of the instance: "UserCredentials" or "MFACredentials"
    interactive,    \* self._interactive (both classes)
    username,       \* UserCredentials.username
    password,       \* UserCredentials.password
    configuration,  \* UserCredentials.configuration (the Section passed in)
    keyring,        \* the OS keychain: account -> Optional secret, service SERVICE_NAME
    devices,        \* MFACredentials._devices
    device_index,   \* MFACredentials._device_index
    otp,            \* MFACredentials._otp
    op,             \* observation: the method called by the last step
    result,         \* observation: "ok" or the exception that call raised
    io,             \* observation: terminal and keyring accesses of that call, in order
    ret,            \* observation: the value that call returned
    pre,            \* observation: the instance as it was when that call started
    otp_reads,      \* observation: reads that returned the token of the last prompt
    succeeded,      \* observation: the MFA prompts that succeeded since __init__/reset
    otp_for         \* observation: the device named in the prompt of the pending OTP

vars == <<cls, interactive, username, password, configuration, keyring,
          devices, device_index, otp, op, result, io, ret, pre, otp_reads,
          succeeded, otp_for>>

----------------------------------------------------------------------------
(* Optional values *)

None == <<>>

Some(v) == <<v>>

\* Python truthiness of an Optional[str]: None and "" are falsy
Truthy(o) == o /= None /\ o[1] /= ""

----------------------------------------------------------------------------
(* Bounds and input domains *)

\* longest device list handed to select_device
MaxDevices == 2

\* what the user may type at the username prompt, or a config file may hold
UsernameInputs == {"", "alice"}

\* what the user may type at the password prompt
PasswordInputs == {"", "hunter2", "s3cret"}

\* what the keychain may hold for an account before the program runs
StoredSecrets == {None, Some(""), Some("hunter2")}

\* accounts the keychain is asked about: the values username can take
Accounts == {None} \cup {Some(u) : u \in UsernameInputs}

\* configurations: 'username' absent (None) or present, can_save_password
Configurations ==
    [username : {None} \cup {Some(u) : u \in UsernameInputs},
     can_save_password : BOOLEAN]

SERVICE_NAME == "onelogin-aws-cli"

\* the MFA devices registered with the identity provider, in its order
DevicePool == <<[id |-> "d1", type |-> "Google Authenticator"],
                [id |-> "d2", type |-> "OneLogin SMS"],
                [id |-> "d3", type |-> "Yubico YubiKey"]>>

\* the devices of DevicePool at the positions in S, in the provider's order
RECURSIVE ListOf(_)
ListOf(S) ==
    IF S = {} THEN <<>>
    ELSE LET m == CHOOSE x \in S : \A y \in S : x <= y
         IN  <<DevicePool[m]>> \o ListOf(S \ {m})

\* device lists handed to select_device: any of the registered devices
DeviceLists ==
    {ListOf(S) : S \in {T \in SUBSET DOMAIN DevicePool : Cardinality(T) <= MaxDevices}}

\* what the user may type at the "Which OTP Device? " prompt, as characters
DeviceInputs ==
    {<<"0">>, <<"1">>, <<"2">>, <<"3">>, <<" ", "2">>, <<"x">>}

\* what the user may type at the token prompt
OtpInputs == {"", "123456", "654321"}

\* reads of otp followed per entered token
MaxReads == 2

----------------------------------------------------------------------------
(* Observation records *)

\* one access to the terminal or the keychain
Event(kind, account, value) ==
    [kind |-> kind, service |-> SERVICE_NAME, account |-> account, value |-> value]

\* what later observations need of the state a call started in
Snapshot ==
    [interactive |-> interactive, username |-> username, password |-> password,
     keyring |-> keyring, device_index |-> device_index, otp |-> otp,
     op |-> op, result |-> result]

----------------------------------------------------------------------------
(* UserCredentials *)

has_password(pw) == pw /= None /\ pw /= Some("")

\* What follows models each method as the set of ways one call can end: one
\* outcome per line the user may type and per answer of the keychain.

\* Faulty variant of load_username: the non-interactive check is missing, so
\* the method prompts whenever the configuration has no username
load_username_always_prompting(u, cfg, inter) ==
    IF Truthy(u)
    THEN {[username |-> u, result |-> "ok", io |-> <<>>]}
    ELSE IF cfg.username /= None
    THEN {[username |-> cfg.username, result |-> "ok", io |-> <<>>]}
    ELSE {[username |-> Some(typed), result |-> "ok",
           io |-> <<Event("prompt_username", None, Some(typed))>>] :
          typed \in UsernameInputs}

\* load_username, from the fields it reads
load_username(u, cfg, inter) ==
    IF Truthy(u)
    THEN {[username |-> u, result |-> "ok", io |-> <<>>]}
    ELSE IF cfg.username /= None
    THEN {[username |-> cfg.username, result |-> "ok", io |-> <<>>]}
    ELSE IF ~inter
    THEN {[username |-> u, result |-> "MissingUsernameException", io |-> <<>>]}
    ELSE {[username |-> Some(typed), result |-> "ok",
           io |-> <<Event("prompt_username", None, Some(typed))>>] :
          typed \in UsernameInputs}

\* Faulty variant of _prompt_user_password: the non-interactive check is
\* missing
prompt_user_password_unguarded(pw, inter) ==
    {[password |-> Some(typed), result |-> "ok",
      io |-> <<Event("prompt_password", None, Some(typed))>>] :
     typed \in PasswordInputs}

\* _prompt_user_password
prompt_user_password(pw, inter) ==
    IF ~inter
    THEN {[password |-> pw, result |-> "MissingPasswordException", io |-> <<>>]}
    ELSE {[password |-> Some(typed), result |-> "ok",
           io |-> <<Event("prompt_password", None, Some(typed))>>] :
          typed \in PasswordInputs}

\* _load_password_from_keychain
load_password_from_keychain(u, store) ==
    [password |-> store[u], io |-> <<Event("get", u, store[u])>>]

\* Faulty variant of _save_password_to_keychain: the secret is filed under the
\* service name instead of the username
save_password_under_service(u, pw, store) ==
    {[keyring |-> store, result |-> "ok",
      io |-> <<Event("set", Some(SERVICE_NAME), pw)>>],
     [keyring |-> store, result |-> "KeyringError",
      io |-> <<Event("set", Some(SERVICE_NAME), pw)>>]}

\* _save_password_to_keychain: keyring.set_password stores the secret or raises
save_password_to_keychain(u, pw, store) ==
    {[keyring |-> [store EXCEPT ![u] = pw], result |-> "ok",
      io |-> <<Event("set", u, pw)>>],
     [keyring |-> store, result |-> "KeyringError",
      io |-> <<Event("set", u, pw)>>]}

\* Faulty variant of load_password_checked: the save comes before the
\* exhausted check, so an empty password typed at the prompt is saved too
load_password_saving_unchecked(u, store, k, p) ==
    IF p.result /= "ok"
    THEN {[password |-> p.password, keyring |-> store, result |-> p.result,
           io |-> k.io \o p.io]}
    ELSE IF ~has_password(k.password)
    THEN {[password |-> p.password, keyring |-> s.keyring,
           result |-> IF s.result /= "ok" THEN s.result
                      ELSE IF has_password(p.password) THEN "ok"
                      ELSE "RuntimeError",
           io |-> k.io \o p.io \o <<Event("print", None, None)>> \o s.io] :
          s \in save_password_to_keychain(u, p.password, store)}
    ELSE {[password |-> p.password, keyring |-> store, result |-> "ok",
           io |-> k.io \o p.io]}

\* load_password from the keychain read on, once the prompt (if any) has
\* ended as p: the exhausted check, then the save
load_password_checked(u, store, k, p) ==
    IF p.result /= "ok"
    THEN {[password |-> p.password, keyring |-> store, result |-> p.result,
           io |-> k.io \o p.io]}
    ELSE IF ~has_password(p.password)
    THEN {[password |-> p.password, keyring |-> store,
           result |-> "RuntimeError", io |-> k.io \o p.io]}
    ELSE IF ~has_password(k.password)
    THEN {[password |-> p.password, keyring |-> s.keyring, result |-> s.result,
           io |-> k.io \o p.io \o <<Event("print", None, None)>> \o s.io] :
          s \in save_password_to_keychain(u, p.password, store)}
    ELSE {[password |-> p.password, keyring |-> store, result |-> "ok",
           io |-> k.io \o p.io]}

\* load_password, the branch taken when configuration.can_save_password
load_password_saving(u, inter, store) ==
    LET k == load_password_from_keychain(u, store)
        prompted == IF has_password(k.password)
                    THEN {[password |-> k.password, result |-> "ok", io |-> <<>>]}
                    ELSE prompt_user_password(k.password, inter)
    IN  UNION {load_password_checked(u, store, k, p) : p \in prompted}

\* Faulty variant of load_password: the keychain is tried whatever
\* configuration.can_save_password says
load_password_always_keychain(u, pw, cfg, inter, store) ==
    IF has_password(pw)
    THEN {[password |-> pw, keyring |-> store, result |-> "ok", io |-> <<>>]}
    ELSE load_password_saving(u, inter, store)

\* load_password
load_password(u, pw, cfg, inter, store) ==
    IF has_password(pw)
    THEN {[password |-> pw, keyring |-> store, result |-> "ok", io |-> <<>>]}
    ELSE IF cfg.can_save_password
    THEN load_password_saving(u, inter, store)
    ELSE {[password |-> p.password, keyring |-> store, result |-> p.result,
           io |-> p.io] : p \in prompt_user_password(pw, inter)}

\* Faulty variant of load_credentials: when load_password() raises, the
\* username is put back to what it was
load_credentials_rolling_back(u, pw, cfg, inter, store) ==
    UNION {IF a.result /= "ok"
           THEN {[username |-> a.username, password |-> pw, keyring |-> store,
                  result |-> a.result, io |-> a.io]}
           ELSE {[username |-> IF b.result = "ok" THEN a.username ELSE u,
                  password |-> b.password,
                  keyring |-> b.keyring, result |-> b.result,
                  io |-> a.io \o b.io] :
                 b \in load_password(a.username, pw, cfg, inter, store)} :
           a \in load_username(u, cfg, inter)}

\* load_credentials: load_username() then load_password(); an exception out
\* of load_username() ends the call
load_credentials(u, pw, cfg, inter, store) ==
    UNION {IF a.result /= "ok"
           THEN {[username |-> a.username, password |-> pw, keyring |-> store,
                  result |-> a.result, io |-> a.io]}
           ELSE {[username |-> a.username, password |-> b.password,
                  keyring |-> b.keyring, result |-> b.result,
                  io |-> a.io \o b.io] :
                 b \in load_password(a.username, pw, cfg, inter, store)} :
           a \in load_username(u, cfg, inter)}

UserUnchanged ==
    UNCHANGED <<cls, configuration, devices, device_index, otp, ret, otp_reads,
                succeeded, otp_for>>

\* Faulty variant of disable_interactive(): the flag is flipped, not cleared
DisableInteractive_flipping ==
    /\ cls = "UserCredentials"
    /\ interactive' = ~interactive
    /\ op' = "disable_interactive"
    /\ result' = "ok"
    /\ io' = <<>>
    /\ pre' = Snapshot
    /\ UNCHANGED <<username, password, keyring>>
    /\ UserUnchanged

\* UserCredentials.disable_interactive()
DisableInteractive ==
    /\ cls = "UserCredentials"
    /\ interactive' = FALSE
    /\ op' = "disable_interactive"
    /\ result' = "ok"
    /\ io' = <<>>
    /\ pre' = Snapshot
    /\ UNCHANGED <<username, password, keyring>>
    /\ UserUnchanged

\* UserCredentials.load_username()
LoadUsername ==
    /\ cls = "UserCredentials"
    /\ \E r \in load_username(username, configuration, interactive) :
         /\ username' = r.username
         /\ result' = r.result
         /\ io' = r.io
    /\ op' = "load_username"
    /\ pre' = Snapshot
    /\ UNCHANGED <<interactive, password, keyring>>
    /\ UserUnchanged

\* UserCredentials.load_password()
LoadPassword ==
    /\ cls = "UserCredentials"
    /\ \E r \in load_password(username, password, configuration, interactive,
                              keyring) :
         /\ password' = r.password
         /\ keyring' = r.keyring
         /\ result' = r.result
         /\ io' = r.io
    /\ op' = "load_password"
    /\ pre' = Snapshot
    /\ UNCHANGED <<interactive, username>>
    /\ UserUnchanged

\* UserCredentials.load_credentials()
LoadCredentials ==
    /\ cls = "UserCredentials"
    /\ \E r \in load_credentials(username, password, configuration, interactive,
                                 keyring) :
         /\ username' = r.username
         /\ password' = r.password
         /\ keyring' = r.keyring
         /\ result' = r.result
         /\ io' = r.io
    /\ op' = "load_credentials"
    /\ pre' = Snapshot
    /\ UNCHANGED interactive
    /\ UserUnchanged

----------------------------------------------------------------------------
(* MFACredentials *)

Digits == <<"0", "1", "2", "3", "4", "5", "6", "7", "8", "9">>

IsDigit(c) == \E d \in DOMAIN Digits : Digits[d] = c

DigitValue(c) == (CHOOSE d \in DOMAIN Digits : Digits[d] = c) - 1

IsSpace(c) == c \in {" ", "\t", "\n"}

RECURSIVE StripLeft(_)
StripLeft(s) ==
    IF s /= <<>> /\ IsSpace(Head(s)) THEN StripLeft(Tail(s)) ELSE s

RECURSIVE StripRight(_)
StripRight(s) ==
    IF s /= <<>> /\ IsSpace(s[Len(s)])
    THEN StripRight(SubSeq(s, 1, Len(s) - 1))
    ELSE s

RECURSIVE DecimalValue(_)
DecimalValue(s) ==
    IF s = <<>> THEN 0
    ELSE 10 * DecimalValue(SubSeq(s, 1, Len(s) - 1)) + DigitValue(s[Len(s)])

\* Python's int(str) on a sequence of characters: surrounding whitespace is
\* dropped, one sign is allowed, the rest must be one or more decimal digits;
\* anything else raises ValueError
ParseInt(typed) ==
    LET t == StripRight(StripLeft(typed))
        signed == t /= <<>> /\ Head(t) \in {"+", "-"}
        body == IF signed THEN Tail(t) ELSE t
        ok == body /= <<>> /\ \A i \in DOMAIN body : IsDigit(body[i])
    IN  IF ~ok THEN [ok |-> FALSE, val |-> 0]
        ELSE [ok |-> TRUE,
              val |-> IF signed /\ Head(t) = "-"
                      THEN 0 - DecimalValue(body) ELSE DecimalValue(body)]

\* Faulty variant of has_device: an index one past the end counts as selected
has_device_off_by_one(devs, idx) == idx /= None /\ idx[1] <= Len(devs)

\* has_device
has_device(devs, idx) == idx /= None /\ idx[1] < Len(devs)

has_otp(o) == o /= None

\* the device property, self._devices[self._device_index], with Python's
\* list indexing: a negative index counts from the end
device(devs, idx) ==
    IF idx = None
    THEN [result |-> "TypeError", device |-> None]
    ELSE IF idx[1] >= 0 /\ idx[1] < Len(devs)
    THEN [result |-> "ok", device |-> Some(devs[idx[1] + 1])]
    ELSE IF idx[1] < 0 /\ 0 - idx[1] <= Len(devs)
    THEN [result |-> "ok", device |-> Some(devs[Len(devs) + idx[1] + 1])]
    ELSE [result |-> "IndexError", device |-> None]

\* Faulty variant of ready(): a pending OTP is enough
ready_without_device(devs, idx, o) == has_otp(o)

\* ready()
ready(devs, idx, o) == has_otp(o) /\ has_device(devs, idx)

\* Faulty variant of the index computation: the number typed is used as the
\* list index as it is
device_number_as_index(device_num) == device_num

\* int(device_num) - 1: the number typed counts the listed devices from 1
to_device_index(device_num) == device_num - 1

\* Faulty variant of select_device: a list of one device is prompted for too
\* (len(self._devices) >= 1)
select_device_prompting_for_one(devs, idx, inter) ==
    IF Len(devs) >= 1
    THEN IF ~inter
         THEN {[device_index |-> idx, result |-> "MissingMfaDeviceException",
                io |-> <<>>]}
         ELSE {LET n == ParseInt(typed)
                   shown == [i \in 1..Len(devs) |->
                               Event("print", None, Some(devs[i].type))]
                   asked == <<Event("prompt_device", None, Some(typed))>>
               IN  IF n.ok
                   THEN [device_index |-> Some(n.val - 1), result |-> "ok",
                         io |-> shown \o asked]
                   ELSE [device_index |-> idx, result |-> "ValueError",
                         io |-> shown \o asked] :
               typed \in DeviceInputs}
    ELSE {[device_index |-> Some(0), result |-> "ok", io |-> <<>>]}

\* select_device(devs), from the fields it reads: the ways one call can end
select_device(devs, idx, inter) ==
    IF Len(devs) > 1
    THEN IF ~inter
         THEN {[device_index |-> idx, result |-> "MissingMfaDeviceException",
                io |-> <<>>]}
         ELSE {LET n == ParseInt(typed)
                   shown == [i \in 1..Len(devs) |->
                               Event("print", None, Some(devs[i].type))]
                   asked == <<Event("prompt_device", None, Some(typed))>>
               IN  IF n.ok
                   THEN [device_index |-> Some(to_device_index(n.val)),
                         result |-> "ok", io |-> shown \o asked]
                   ELSE [device_index |-> idx, result |-> "ValueError",
                         io |-> shown \o asked] :
               typed \in DeviceInputs}
    ELSE {[device_index |-> Some(0), result |-> "ok", io |-> <<>>]}

\* Faulty variant of prompt_token: the prompt does not name the device, so
\* the token is read whether or not a device is selected
prompt_token_without_device(devs, idx, o, inter) ==
    IF ~inter
    THEN {[otp |-> o, result |-> "MissingMfaOtpException", io |-> <<>>]}
    ELSE {[otp |-> Some(typed), result |-> "ok",
           io |-> <<Event("prompt_token", None, Some(typed))>>] :
          typed \in OtpInputs}

\* prompt_token: the prompt text is formatted from self.device.type before
\* input() is called
prompt_token(devs, idx, o, inter) ==
    IF ~inter
    THEN {[otp |-> o, result |-> "MissingMfaOtpException", io |-> <<>>]}
    ELSE IF device(devs, idx).result /= "ok"
    THEN {[otp |-> o, result |-> device(devs, idx).result, io |-> <<>>]}
    ELSE {[otp |-> Some(typed), result |-> "ok",
           io |-> <<Event("prompt_token", None, Some(typed))>>] :
          typed \in OtpInputs}

\* Faulty variant of the otp property: the value is handed out and kept
read_otp_keeping(o) == [otp |-> o, ret |-> o]

\* the otp property: hand out the pending value and forget it
read_otp(o) == [otp |-> None, ret |-> o]

MfaUnchanged == UNCHANGED <<cls, username, password, configuration, keyring>>

\* MFACredentials.select_device(devices)
SelectDevice ==
    /\ cls = "MFACredentials"
    /\ \E devs \in DeviceLists :
         \E r \in select_device(devs, device_index, interactive) :
            /\ devices' = devs
            /\ device_index' = r.device_index
            /\ result' = r.result
            /\ io' = r.io
            /\ succeeded' = IF r.result = "ok"
                            THEN succeeded \cup {"select_device"} ELSE succeeded
    /\ op' = "select_device"
    /\ pre' = Snapshot
    /\ UNCHANGED <<interactive, otp, ret, otp_reads, otp_for>>
    /\ MfaUnchanged

\* MFACredentials.prompt_token()
PromptToken ==
    /\ cls = "MFACredentials"
    /\ \E r \in prompt_token(devices, device_index, otp, interactive) :
         /\ otp' = r.otp
         /\ result' = r.result
         /\ io' = r.io
         /\ otp_reads' = IF r.result = "ok" THEN 0 ELSE otp_reads
         /\ succeeded' = IF r.result = "ok"
                         THEN succeeded \cup {"prompt_token"} ELSE succeeded
         /\ otp_for' = IF r.result = "ok"
                       THEN device(devices, device_index).device ELSE otp_for
    /\ op' = "prompt_token"
    /\ pre' = Snapshot
    /\ UNCHANGED <<interactive, devices, device_index, ret>>
    /\ MfaUnchanged

\* a read of MFACredentials.otp
ReadOtp ==
    /\ cls = "MFACredentials"
    /\ otp_reads < MaxReads
    /\ LET r == read_otp(otp)
       IN  /\ otp' = r.otp
           /\ ret' = r.ret
           /\ otp_reads' = IF r.ret /= None THEN otp_reads + 1 ELSE otp_reads
           /\ otp_for' = IF r.otp = None THEN None ELSE otp_for
    /\ op' = "otp"
    /\ result' = "ok"
    /\ io' = <<>>
    /\ pre' = Snapshot
    /\ UNCHANGED <<interactive, devices, device_index, succeeded>>
    /\ MfaUnchanged

\* Faulty variant of reset(): the pending OTP is kept
Reset_keeping_otp ==
    /\ cls = "MFACredentials"
    /\ devices' = <<>>
    /\ device_index' = None
    /\ succeeded' = {}
    /\ op' = "reset"
    /\ result' = "ok"
    /\ io' = <<>>
    /\ pre' = Snapshot
    /\ UNCHANGED <<interactive, otp, ret, otp_reads, otp_for>>
    /\ MfaUnchanged

\* MFACredentials.reset()
Reset ==
    /\ cls = "MFACredentials"
    /\ devices' = <<>>
    /\ device_index' = None
    /\ otp' = None
    /\ otp_for' = None
    /\ succeeded' = {}
    /\ op' = "reset"
    /\ result' = "ok"
    /\ io' = <<>>
    /\ pre' = Snapshot
    /\ UNCHANGED <<interactive, ret, otp_reads>>
    /\ MfaUnchanged

\* The class has no method that changes _interactive: the owner of the
\* instance assigns the attribute
SetInteractive ==
    /\ cls = "MFACredentials"
    /\ \E b \in BOOLEAN : interactive' = b
    /\ op' = "set_interactive"
    /\ result' = "ok"
    /\ io' = <<>>
    /\ pre' = Snapshot
    /\ UNCHANGED <<devices, device_index, otp, ret, otp_reads, succeeded,
                   otp_for>>
    /\ MfaUnchanged

----------------------------------------------------------------------------

\* UserCredentials.__init__(username, config) with any keychain content
InitUser ==
    /\ cls = "UserCredentials"
    /\ username \in Accounts
    /\ configuration \in Configurations
    /\ password = None
    /\ interactive = TRUE
    /\ keyring \in [Accounts -> StoredSecrets]
    /\ devices = <<>>
    /\ device_index = None
    /\ otp = None

\* MFACredentials.__init__()
InitMfa ==
    /\ cls = "MFACredentials"
    /\ interactive = TRUE
    /\ devices = <<>>
    /\ device_index = None
    /\ otp = None
    /\ username = None
    /\ password = None
    /\ configuration = [username |-> None, can_save_password |-> FALSE]
    /\ keyring = [a \in Accounts |-> None]

Init ==
    /\ (InitUser \/ InitMfa)
    /\ otp_reads = 0
    /\ op = "__init__"
    /\ result = "ok"
    /\ io = <<>>
    /\ ret = None
    /\ succeeded = {}
    /\ otp_for = None
    /\ pre = [interactive |-> TRUE, username |-> None, password |-> None,
              keyring |-> keyring, device_index |-> None, otp |-> None,
              op |-> "none", result |-> "ok"]

Next ==
    \/ DisableInteractive
    \/ LoadUsername
    \/ LoadPassword
    \/ LoadCredentials
    \/ SelectDevice
    \/ PromptToken
    \/ ReadOtp
    \/ Reset
    \/ SetInteractive

Spec == Init /\ [][Next]_vars

----------------------------------------------------------------------------
(* Observations shared by the properties *)

PromptKinds == {"prompt_username", "prompt_password", "prompt_device", "prompt_token"}

MissingKinds ==
    {"MissingUsernameException", "MissingPasswordException",
     "MissingMfaDeviceException", "MissingMfaOtpException"}

\* the accesses of the given kind made by the last call
EventsOf(kind) == {i \in DOMAIN io : io[i].kind = kind}

Prompted == \E i \in DOMAIN io : io[i].kind \in PromptKinds

\* the last call typed the line `typed` at a prompt of the given kind
Typed(kind, typed) == \E i \in EventsOf(kind) : io[i].value = Some(typed)

HasDevice == has_device(devices, device_index)

Ready == ready(devices, device_index, otp)

----------------------------------------------------------------------------
(* Properties *)

\* C1: whenever load_username() returns without raising, username is
\* non-empty.
C1_UsernameNonEmpty ==
    (op = "load_username" /\ result = "ok") => Truthy(username)

\* C2: whenever load_password() returns without raising, a non-empty password
\* is held (has_password), with password saving enabled or disabled; a call
\* that obtained no password raises instead of returning.
C2_PasswordHeld ==
    (op = "load_password" /\ result = "ok") => has_password(password)

\* C3 as stated: in non-interactive mode with no 'username' key in the
\* configuration, load_username() always raises MissingUsernameException.
C3_AlwaysMissingUsername ==
    (op = "load_username" /\ ~interactive /\ configuration.username = None)
        => result = "MissingUsernameException"

\* C3 amended: in non-interactive mode with no 'username' key in the
\* configuration, load_username() called while username is unset or empty
\* raises MissingUsernameException and leaves username as it was; called
\* while a non-empty username is held it returns without raising.
C3_MissingUsername ==
    (op = "load_username" /\ ~interactive /\ configuration.username = None)
        => IF Truthy(pre.username)
           THEN result = "ok" /\ username = pre.username
           ELSE result = "MissingUsernameException" /\ username = pre.username

C3_Witness ==
    /\ op = "load_username"
    /\ ~interactive
    /\ configuration.username = None
    /\ ~Truthy(pre.username)
    /\ result = "MissingUsernameException"

\* C4: load_password() is idempotent: of two calls in a row (the first having
\* returned), the second reads no keychain entry, writes none, prompts for
\* nothing and leaves password unchanged.
C4_SecondLoadIsNoOp ==
    (op = "load_password" /\ pre.op = "load_password" /\ pre.result = "ok")
        => io = <<>> /\ password = pre.password

\* C5 as stated: with can_save_password and no (or an empty) password in the
\* keychain for the username, an interactive load_password() that returns
\* makes exactly one keyring set call, for (SERVICE_NAME, username), with the
\* password typed at the prompt.
C5_OneSetWhenStoreLacks ==
    (/\ op = "load_password"
     /\ result = "ok"
     /\ interactive
     /\ configuration.can_save_password
     /\ ~has_password(pre.keyring[username]))
        => /\ Cardinality(EventsOf("set")) = 1
           /\ \A i \in EventsOf("set") :
                /\ io[i] = Event("set", username, password)
                /\ Typed("prompt_password", password[1])

\* C5 amended: the same, for a call that starts with no password held.
C5_OneSetWhenPrompted ==
    (/\ op = "load_password"
     /\ result = "ok"
     /\ interactive
     /\ configuration.can_save_password
     /\ ~has_password(pre.password)
     /\ ~has_password(pre.keyring[username]))
        => /\ Cardinality(EventsOf("set")) = 1
           /\ \A i \in EventsOf("set") :
                /\ io[i] = Event("set", username, password)
                /\ io[i].service = "onelogin-aws-cli"
                /\ Typed("prompt_password", password[1])
           /\ keyring[username] = password

C5_Witness ==
    /\ op = "load_password"
    /\ result = "ok"
    /\ interactive
    /\ configuration.can_save_password
    /\ ~has_password(pre.password)
    /\ pre.keyring[username] = Some("")
    /\ Cardinality(EventsOf("set")) = 1
    /\ keyring[username] = Some("s3cret")

\* C6: reading otp is single-use: a read returns the pending value and leaves
\* no OTP pending, a read right after a read returns None, and the token typed
\* at one prompt_token() is returned by at most one read.
C6_OtpSingleUse ==
    /\ op = "otp" => (ret = pre.otp /\ ~has_otp(otp))
    /\ (op = "otp" /\ pre.op = "otp") => ret = None
    /\ otp_reads <= 1

C6_Witness ==
    /\ op = "otp"
    /\ pre.op = "otp"
    /\ otp_reads = 1
    /\ ret = None

\* C7: non-interactive mode never prompts: on a non-interactive instance no
\* call of load_username, load_password, load_credentials, select_device or
\* prompt_token reaches a prompt, each such call returns or raises one of the
\* Missing* exceptions, and a call that needs a prompt raises its own.
C7_NonInteractiveNeverPrompts ==
    (/\ ~interactive
     /\ op \in {"load_username", "load_password", "load_credentials",
                "select_device", "prompt_token"})
        => /\ ~Prompted
           /\ result \in {"ok"} \cup MissingKinds
           /\ (op = "load_username" /\ ~Truthy(pre.username)
                 /\ configuration.username = None)
                => result = "MissingUsernameException"
           /\ (op = "load_password" /\ ~has_password(pre.password)
                 /\ (configuration.can_save_password
                       => ~has_password(pre.keyring[username])))
                => result = "MissingPasswordException"
           /\ (op = "select_device" /\ Len(devices) > 1)
                => result = "MissingMfaDeviceException"
           /\ op = "prompt_token" => result = "MissingMfaOtpException"

C7_Witness ==
    /\ ~interactive
    /\ op = "load_credentials"
    /\ Truthy(username)
    /\ result = "MissingPasswordException"
    /\ EventsOf("get") /= {}

\* C8: select_device with a list of exactly one device selects index 0
\* without prompting, interactive or not and whatever was held before;
\* afterwards has_device is true and device is that one element.
C8_SingleDeviceAutoSelected ==
    (op = "select_device" /\ Len(devices) = 1)
        => /\ result = "ok"
           /\ ~Prompted
           /\ device_index = Some(0)
           /\ HasDevice
           /\ device(devices, device_index) =
                [result |-> "ok", device |-> Some(devices[1])]

C8_Witness ==
    /\ op = "select_device"
    /\ Len(devices) = 1
    /\ ~interactive
    /\ pre.device_index = Some(1)
    /\ pre.otp /= None
    /\ device_index = Some(0)

\* C9: select_device with more than one device: non-interactive, it raises
\* MissingMfaDeviceException; interactive, typing the number k of a listed
\* device (1 <= k <= len(devices)) selects index k - 1, so that device is the
\* k-th of the list ("2" on two devices selects index 1).
C9_SeveralDevices ==
    (op = "select_device" /\ Len(devices) > 1)
        => /\ ~interactive => result = "MissingMfaDeviceException"
           /\ interactive =>
                \A k \in 1..Len(devices) :
                    Typed("prompt_device", <<Digits[k + 1]>>)
                        => /\ result = "ok"
                           /\ device_index = Some(k - 1)
                           /\ device(devices, device_index).device
                                = Some(devices[k])

C9_Witness ==
    /\ op = "select_device"
    /\ Len(devices) = 2
    /\ interactive
    /\ Typed("prompt_device", <<"2">>)
    /\ device_index = Some(1)
    /\ device(devices, device_index).device = Some(devices[2])

\* C10: ready() is true exactly when an OTP is pending and a device is
\* selected; from __init__ (or reset) on it stays false until a select_device
\* and a prompt_token have both succeeded; and it is false right after otp is
\* read, the device staying selected.
C10_Ready ==
    /\ Ready <=> (otp /= None /\ device_index /= None
                    /\ device_index[1] < Len(devices))
    /\ Ready => {"select_device", "prompt_token"} \subseteq succeeded
    /\ op = "otp" => (~Ready /\ device_index = pre.device_index)

C10_Witness ==
    /\ op = "otp"
    /\ ret /= None
    /\ HasDevice
    /\ ~Ready
    /\ pre.op = "prompt_token"

\* C11: from every state reset() yields the pristine instance: no devices,
\* no selected index, no pending OTP (has_device, has_otp and ready() all
\* false), with _interactive as it was.
C11_ResetIsPristine ==
    op = "reset"
        => /\ devices = <<>>
           /\ device_index = None
           /\ otp = None
           /\ ~HasDevice
           /\ ~has_otp(otp)
           /\ ~Ready
           /\ interactive = pre.interactive

C11_Witness ==
    /\ op = "reset"
    /\ pre.otp /= None
    /\ pre.device_index = Some(1)
    /\ ~interactive
    /\ ~Ready

\* C12: disable_interactive() is a one-way flip: the call leaves the
\* instance non-interactive, and a non-interactive UserCredentials stays so
\* through every later load_username, load_password, load_credentials and
\* disable_interactive call, the failing ones included.
C12_DisableIsOneWay ==
    cls = "UserCredentials"
        => /\ op = "disable_interactive" => ~interactive
           /\ ~pre.interactive => ~interactive

C12_Witness ==
    /\ cls = "UserCredentials"
    /\ ~pre.interactive
    /\ ~interactive
    /\ op = "load_credentials"
    /\ result = "MissingUsernameException"

\* C13: precedence of the password sources in a load_password() that starts
\* with no password held: with can_save_password and a non-empty keychain
\* entry, that entry is adopted with no prompt and no keyring set call;
\* without can_save_password the keychain is neither read nor written and a
\* password comes from the prompt only.
C13_PasswordPrecedence ==
    (op = "load_password" /\ ~has_password(pre.password))
        => /\ (configuration.can_save_password
                 /\ has_password(pre.keyring[username]))
                => /\ result = "ok"
                   /\ password = pre.keyring[username]
                   /\ EventsOf("get") /= {}
                   /\ ~Prompted
                   /\ EventsOf("set") = {}
                   /\ keyring = pre.keyring
           /\ ~configuration.can_save_password
                => /\ EventsOf("get") = {}
                   /\ EventsOf("set") = {}
                   /\ keyring = pre.keyring
                   /\ password /= pre.password
                        => Typed("prompt_password", password[1])

C13_Witness ==
    /\ op = "load_password"
    /\ ~has_password(pre.password)
    /\ configuration.can_save_password
    /\ pre.keyring[username] = Some("hunter2")
    /\ password = Some("hunter2")
    /\ ~Prompted

\* C14: load_credentials() is load_username() then load_password() with no
\* rollback: when load_username() raises, no password source is touched;
\* when load_password() then raises, the username this call resolved stays
\* set.
C14_NoRollback ==
    op = "load_credentials"
        => /\ result = "MissingUsernameException"
                => /\ io = <<>>
                   /\ password = pre.password
                   /\ keyring = pre.keyring
                   /\ username = pre.username
           /\ result \in {"MissingPasswordException", "RuntimeError",
                          "KeyringError"}
                => IF Truthy(pre.username) THEN username = pre.username
                   ELSE IF configuration.username /= None
                   THEN username = configuration.username
                   ELSE \E i \in EventsOf("prompt_username") :
                            io[i].value = username

C14_Witness ==
    /\ op = "load_credentials"
    /\ result = "MissingPasswordException"
    /\ pre.username = None
    /\ username = Some("alice")

\* C15: has_device is true only if the selected index is a valid position of
\* the device list, 0 <= _device_index < len(_devices).
C15_HasDeviceMeansValidIndex ==
    HasDevice => (device_index[1] >= 0 /\ device_index[1] < Len(devices))

\* C16: select_device replaces the list and resets the selection on every
\* call: after a select_device that raises MissingMfaDeviceException no
\* selection made against an earlier list is left, has_device is false.
C16_FailedSelectLeavesNoSelection ==
    (op = "select_device" /\ result = "MissingMfaDeviceException")
        => ~HasDevice

\* C17: whenever ready() is true, the pending OTP was typed at a
\* prompt_token() made for the device now selected; an OTP typed for one
\* device is not left pending once select_device selects another.
C17_OtpIsForSelectedDevice ==
    Ready => device(devices, device_index).device = otp_for

\* C18: the keychain is written only with a non-empty password typed at the
\* prompt in the same call: a keyring set call is made only in interactive
\* mode, by a load that ends returning or in the keychain's own error, with
\* the password held and typed in that call; the keychain content changes
\* only by such a call.
C18_OnlyPromptedPasswordSaved ==
    /\ \A i \in EventsOf("set") :
         /\ op \in {"load_password", "load_credentials"}
         /\ interactive
         /\ result \in {"ok", "KeyringError"}
         /\ has_password(io[i].value)
         /\ io[i].value = password
         /\ Typed("prompt_password", password[1])
    /\ keyring /= pre.keyring => EventsOf("set") /= {}

C18_Witness ==
    /\ op = "load_credentials"
    /\ EventsOf("set") /= {}
    /\ keyring /= pre.keyring
    /\ keyring[username] = Some("s3cret")

\* C19: prompt_token() stores a pending OTP only when the instance is
\* interactive and a device is selected: non-interactive it raises
\* MissingMfaOtpException, with has_device false it raises too, and a call
\* that raises leaves the pending OTP and the selection as they were.
C19_PromptTokenNeedsDevice ==
    op = "prompt_token"
        => /\ ~interactive => result = "MissingMfaOtpException"
           /\ ~HasDevice => result /= "ok"
           /\ result = "ok"
                => /\ interactive
                   /\ HasDevice
                   /\ Typed("prompt_token", otp[1])
           /\ result /= "ok"
                => /\ otp = pre.otp
                   /\ device_index = pre.device_index
                   /\ ~Prompted

C19_Witness ==
    /\ op = "prompt_token"
    /\ interactive
    /\ ~HasDevice
    /\ devices = <<>>
    /\ device_index = Some(0)
    /\ result = "IndexError"
    /\ otp /= None

\* C20: select_device with an empty list prompts for nothing and raises
\* nothing, interactive or not, and leaves has_device false whatever was
\* held before; ready() is then false.
C20_EmptyListSelectsNothing ==
    (op = "select_device" /\ devices = <<>>)
        => /\ result = "ok"
           /\ io = <<>>
           /\ ~HasDevice
           /\ ~Ready

C20_Witness ==
    /\ op = "select_device"
    /\ devices = <<>>
    /\ ~interactive
    /\ pre.device_index = Some(1)
    /\ pre.otp /= None
    /\ otp /= None

====
